---- MODULE Spec2Model ----
(***************************************************************************)
(* A model of the cpusim processor simulator (src/src/main.rs): the        *)
(* Processor state, the fetch/decode/execute cycle of                      *)
(* Processor::execute_instruction, the loop of Processor::run and the text *)
(* assembler `assemble`.                                                   *)
(*                                                                         *)
(* A Rust u32 does not fit a TLC integer, so a u32 is kept as its two      *)
(* 16-bit halves [hi, lo] (value = hi * 2^16 + lo) and every shift, mask   *)
(* and sum of the source is computed on the halves with the full 32-bit    *)
(* width.  An i32 is kept the same way with a signed high half.            *)
(*                                                                         *)
(* Integer overflow in Rust depends on the build: with overflow checks     *)
(* (the debug profile) `+`, `-` and `+=` panic, without them (the release  *)
(* profile) they wrap.  The variable overflow_checks is the build the      *)
(* program was compiled with; both are explored.                           *)
(***************************************************************************)
EXTENDS Integers, Sequences, FiniteSets, TLC

VARIABLES
    program_counter,  \* Processor.program_counter: usize (see UsizeMax)
    ram,              \* Processor.ram: [u32; 64]
    flag_register,    \* Processor.flag_register: u32
    registers,        \* Processor.registers: [u32; 4]
    halt,             \* Processor.halt: bool
    instruction,      \* the local `instruction` of execute_instruction
    at_fetch,         \* the program counter and flag the current cycle began with
    loc,              \* where main is: "new", "fetch", "epilogue", "returned", "panicked"
    bin,              \* the argument `bin` of run
    overflow_checks,  \* the build: TRUE = overflow panics, FALSE = overflow wraps
    stage,            \* which free function is to be applied next ("main": none, main runs)
    given,            \* the argument the first function is applied to
    first,            \* what the first function returned
    second            \* what the second function, applied to `first`, returned

vars == <<program_counter, ram, flag_register, registers, halt, instruction,
          at_fetch, loc, bin, overflow_checks, stage, given, first, second>>

-----------------------------------------------------------------------------
(* 32-bit words as two 16-bit halves *)

\* 2^16: the weight of the high half of a u32
W16 == 65536

\* the u32 with value n, for 0 <= n < 2^31
Lit(n) == [hi |-> n \div W16, lo |-> n % W16]

\* u32::MAX as a word
U32Max == [hi |-> W16 - 1, lo |-> W16 - 1]

\* x < n for a small natural n (n <= 2^16): what an array index check `x as usize < n` asks
Below(x, n) == x.hi = 0 /\ x.lo < n

RECURSIVE Pow2(_)
Pow2(k) == IF k = 0 THEN 1 ELSE 2 * Pow2(k - 1)

\* x >> k on a u32, 0 <= k < 32
Shr(x, k) ==
    IF k >= 16
    THEN [hi |-> 0, lo |-> x.hi \div Pow2(k - 16)]
    ELSE [hi |-> x.hi \div Pow2(k),
          lo |-> (x.hi % Pow2(k)) * Pow2(16 - k) + x.lo \div Pow2(k)]

\* x << k on a u32, 0 <= k < 32: the bits shifted out of the word are lost
Shl(x, k) ==
    IF k >= 16
    THEN [hi |-> (x.lo % Pow2(32 - k)) * Pow2(k - 16), lo |-> 0]
    ELSE [hi |-> (x.hi % Pow2(16 - k)) * Pow2(k) + x.lo \div Pow2(16 - k),
          lo |-> (x.lo % Pow2(16 - k)) * Pow2(k)]

RECURSIVE OrBits(_, _, _)
OrBits(a, b, n) ==
    IF n = 0 THEN 0
    ELSE (IF a % 2 = 1 \/ b % 2 = 1 THEN 1 ELSE 0) + 2 * OrBits(a \div 2, b \div 2, n - 1)

RECURSIVE AndBits(_, _, _)
AndBits(a, b, n) ==
    IF n = 0 THEN 0
    ELSE (IF a % 2 = 1 /\ b % 2 = 1 THEN 1 ELSE 0) + 2 * AndBits(a \div 2, b \div 2, n - 1)

\* a | b, a & b and !a on u32
BitOr(a, b) == [hi |-> OrBits(a.hi, b.hi, 16), lo |-> OrBits(a.lo, b.lo, 16)]
BitAnd(a, b) == [hi |-> AndBits(a.hi, b.hi, 16), lo |-> AndBits(a.lo, b.lo, 16)]
BitNot(a) == [hi |-> W16 - 1 - a.hi, lo |-> W16 - 1 - a.lo]

\* u32 `a + b`: the wrapped sum and whether it overflowed
U32Add(a, b) ==
    LET s == a.lo + b.lo
        h == a.hi + b.hi + s \div W16
    IN  [value |-> [hi |-> h % W16, lo |-> s % W16], overflow |-> h >= W16]

\* u32 `a - b`: the wrapped difference and whether it underflowed
U32Sub(a, b) ==
    LET s == a.lo - b.lo
        borrow == IF s < 0 THEN 1 ELSE 0
        h == a.hi - b.hi - borrow
    IN  [value |-> [hi |-> h % W16, lo |-> s % W16], overflow |-> h < 0]

\* `x as i32`: the same bits, the high half read as signed
AsI32(x) == [hi |-> IF x.hi >= W16 \div 2 THEN x.hi - W16 ELSE x.hi, lo |-> x.lo]

\* i32 `a - b`: the wrapped difference and whether it left the i32 range
I32Sub(a, b) ==
    LET s == a.lo - b.lo
        borrow == IF s < 0 THEN 1 ELSE 0
        h == a.hi - b.hi - borrow
        half == W16 \div 2
    IN  [value |-> [hi |-> ((h + half) % W16) - half, lo |-> s % W16],
         overflow |-> h < -half \/ h >= half]

I32Positive(x) == x.hi > 0 \/ (x.hi = 0 /\ x.lo > 0)
I32Zero(x) == x.hi = 0 /\ x.lo = 0
I32Negative(x) == x.hi < 0

-----------------------------------------------------------------------------
(* Decoding: the fields execute_instruction cuts out of the fetched word *)

\* `instruction >> 18`, a number below 2^14
Opcode(w) == Shr(w, 18).lo

\* a faulty variant of Operand: the mask two bits short
OperandLow16(w) == BitAnd(w, Lit(65535))

\* `instruction & (!(0b1111 << 18))`
Operand(w) == BitAnd(w, BitNot(Shl(Lit(15), 18)))

\* opcode 1: `operand >> 2` and `operand & (!(0b1111 << 2))`
ldi_immediate_value(operand) == Shr(operand, 2)
ldi_target_register(operand) == BitAnd(operand, BitNot(Shl(Lit(15), 2)))

\* a faulty variant of reg_c: the mask and shift of reg_b copied to it
reg_c_as_reg_b(operand) == Shr(BitAnd(operand, Lit(12)), 2)

\* opcodes 2 and 3: `operand >> 4`, `(operand & 0b001100) >> 2`, `operand & 0b000011`
reg_a(operand) == Shr(operand, 4)
reg_b(operand) == Shr(BitAnd(operand, Lit(12)), 2)
reg_c(operand) == BitAnd(operand, Lit(3))

\* opcode 4: `operand >> 2` and `operand & (0b11)`
immed_compare(operand) == Shr(operand, 2)
register_addr(operand) == BitAnd(operand, Lit(3))

\* opcodes 5 to 8: `operand & (0b11111)`
jump_addr(operand) == BitAnd(operand, Lit(31))

\* a faulty variant of ram_addr: the 5-bit mask of the jump target used for it
ram_addr_5_bits(operand) == Shr(BitAnd(operand, Shl(Lit(31), 2)), 2)

\* opcodes 9 and 10: `operand & (0b11)` and `(operand & (0b111111 << 2)) >> 2`
reg_addr(operand) == BitAnd(operand, Lit(3))
ram_addr(operand) == Shr(BitAnd(operand, Shl(Lit(63), 2)), 2)

RegIndex == 0..3
RamIndex == 0..63

ZeroWord == Lit(0)

-----------------------------------------------------------------------------
(* The assembler.  A source text is a sequence of characters. *)

\* `program.split('\n')`: the pieces between newlines, empty pieces kept
RECURSIVE SplitLines(_, _, _)
SplitLines(text, i, cur) ==
    IF i > Len(text) THEN <<cur>>
    ELSE IF text[i] = "\n" THEN <<cur>> \o SplitLines(text, i + 1, <<>>)
    ELSE SplitLines(text, i + 1, Append(cur, text[i]))

Whitespace == {" ", "\t", "\r"}

\* `ins.split_whitespace()`: the non-empty pieces between runs of whitespace
RECURSIVE SplitWhitespace(_, _, _)
SplitWhitespace(line, i, cur) ==
    LET piece == IF cur = <<>> THEN <<>> ELSE <<cur>>
    IN  IF i > Len(line) THEN piece
        ELSE IF line[i] \in Whitespace THEN piece \o SplitWhitespace(line, i + 1, <<>>)
        ELSE SplitWhitespace(line, i + 1, Append(cur, line[i]))

DigitChars == {"0", "1", "2", "3", "4", "5", "6", "7", "8", "9"}

DigitValue(c) ==
    CASE c = "0" -> 0 [] c = "1" -> 1 [] c = "2" -> 2 [] c = "3" -> 3 [] c = "4" -> 4
      [] c = "5" -> 5 [] c = "6" -> 6 [] c = "7" -> 7 [] c = "8" -> 8 [] c = "9" -> 9

\* acc * 10 + d on u32, with the overflow u32::from_str checks for
MulAdd10(acc, d) ==
    LET l == acc.lo * 10 + d
        h == acc.hi * 10 + l \div W16
    IN  [value |-> [hi |-> h % W16, lo |-> l % W16], overflow |-> h >= W16]

RECURSIVE ParseDigits(_, _, _)
ParseDigits(chars, i, acc) ==
    IF i > Len(chars) THEN [ok |-> TRUE, value |-> acc]
    ELSE IF chars[i] \notin DigitChars THEN [ok |-> FALSE, value |-> acc]
    ELSE LET r == MulAdd10(acc, DigitValue(chars[i]))
         IN  IF r.overflow THEN [ok |-> FALSE, value |-> acc]
             ELSE ParseDigits(chars, i + 1, r.value)

\* `.parse::<u32>()`: decimal digits after an optional `+`; an empty string, a
\* character that is no digit or a value above u32::MAX is an Err
ParseU32(chars) ==
    LET digits == IF chars # <<>> /\ chars[1] = "+" THEN Tail(chars) ELSE chars
    IN  IF digits = <<>> THEN [ok |-> FALSE, value |-> ZeroWord]
        ELSE ParseDigits(digits, 1, ZeroWord)

\* `.chars().skip(1)`
Skip1(chars) == IF chars = <<>> THEN <<>> ELSE Tail(chars)

\* the `match terms[0]` of assemble: the opcode of a mnemonic, 0 for any other
MnemonicOpcode(term) ==
    CASE term = <<"l", "d", "i">> -> 1
      [] term = <<"a", "d", "d">> -> 2
      [] term = <<"s", "u", "b">> -> 3
      [] term = <<"c", "m", "p">> -> 4
      [] term = <<"j", "m", "p">> -> 5
      [] term = <<"j", "e", "q">> -> 6
      [] term = <<"j", "g", "t">> -> 7
      [] term = <<"j", "l", "t">> -> 8
      [] term = <<"s", "t", "o">> -> 9
      [] term = <<"l", "o", "d">> -> 10
      [] term = <<"h", "l", "t">> -> 15
      [] OTHER -> 0

\* terms[k] parsed whole (an immediate or address), k counted from 0 as in the
\* source; a missing term is an index panic and a failed parse an unwrap panic
ImmTerm(terms, k) ==
    IF Len(terms) < k + 1 THEN [ok |-> FALSE, value |-> ZeroWord]
    ELSE ParseU32(terms[k + 1])

\* terms[k] parsed without its first character (a register)
RegTerm(terms, k) ==
    IF Len(terms) < k + 1 THEN [ok |-> FALSE, value |-> ZeroWord]
    ELSE ParseU32(Skip1(terms[k + 1]))

AsmPanic == [panic |-> TRUE, word |-> ZeroWord]
AsmWord(w) == [panic |-> FALSE, word |-> w]

\* one pass of the `for` loop of assemble: the word of a line, or a panic
AssembleLine(line) ==
    LET terms == SplitWhitespace(line, 1, <<>>)
    IN  IF terms = <<>> THEN AsmPanic
        ELSE
        LET opcode == MnemonicOpcode(terms[1])
            output_ins == Shl(Lit(opcode), 18)
        IN  CASE opcode \in {1, 4, 9, 10} ->
                   LET x == ImmTerm(terms, 1)
                       r == RegTerm(terms, 2)
                   IN  IF x.ok /\ r.ok
                       THEN AsmWord(BitOr(output_ins, BitOr(Shl(x.value, 2), r.value)))
                       ELSE AsmPanic
              [] opcode \in {2, 3} ->
                   LET a == RegTerm(terms, 1)
                       b == RegTerm(terms, 2)
                       c == RegTerm(terms, 3)
                   IN  IF a.ok /\ b.ok /\ c.ok
                       THEN AsmWord(BitOr(output_ins,
                                BitOr(BitOr(Shl(a.value, 4), Shl(b.value, 2)), c.value)))
                       ELSE AsmPanic
              [] opcode \in {5, 6, 7, 8} ->
                   LET x == ImmTerm(terms, 1)
                   IN  IF x.ok THEN AsmWord(BitOr(output_ins, x.value)) ELSE AsmPanic
              [] opcode = 15 -> AsmWord(output_ins)
              [] OTHER -> AsmPanic

RECURSIVE AssembleLines(_, _, _)
AssembleLines(lines, i, output_instructions) ==
    IF i > Len(lines) THEN [panic |-> FALSE, words |-> output_instructions]
    ELSE LET r == AssembleLine(lines[i])
         IN  IF r.panic THEN [panic |-> TRUE, words |-> output_instructions]
             ELSE AssembleLines(lines, i + 1, Append(output_instructions, r.word))

\* assemble(program_str): the words of the lines, or a panic at the first line
\* that cannot be assembled
assemble(text) == AssembleLines(SplitLines(text, 1, <<>>), 1, <<>>)

-----------------------------------------------------------------------------
(* Programs: the words given to run.  Each word is built the way `assemble`  *)
(* packs it, the opcode shifted left by 18 or-ed with the operand fields.    *)

Enc(opcode, operand) == BitOr(Shl(Lit(opcode), 18), operand)

LDI(v, d) == Enc(1, BitOr(Shl(Lit(v), 2), Lit(d)))
ADD(a, b, c) == Enc(2, BitOr(BitOr(Shl(Lit(a), 4), Shl(Lit(b), 2)), Lit(c)))
SUB(a, b, c) == Enc(3, BitOr(BitOr(Shl(Lit(a), 4), Shl(Lit(b), 2)), Lit(c)))
CMP(v, r) == Enc(4, BitOr(Shl(Lit(v), 2), Lit(r)))
JMP(t) == Enc(5, Lit(t))
JEQ(t) == Enc(6, Lit(t))
JGT(t) == Enc(7, Lit(t))
JLT(t) == Enc(8, Lit(t))
STO(a, r) == Enc(9, BitOr(Shl(Lit(a), 2), Lit(r)))
LOD(a, r) == Enc(10, BitOr(Shl(Lit(a), 2), Lit(r)))
HLT == Enc(15, ZeroWord)
NOP == ZeroWord

\* the program of Processor::demo
DemoProgram ==
    <<LDI(1, 1), LDI(1, 2), ADD(1, 2, 2), CMP(8, 2), JLT(2), STO(18, 2), HLT>>

\* immediates, below and above the 4 bits that reach neither field mask
Imms == {0, 5, 15, 16, 255, 65535}

\* register contents: small values, i32::MAX, i32::MIN as bits, u32::MAX
DataWords ==
    {Lit(0), Lit(1), Lit(8), [hi |-> 32767, lo |-> 65535], [hi |-> 32768, lo |-> 0],
     U32Max}

\* `body` run with r0 = x and r1 = y, loaded from the two words behind the halt
WithData(body, x, y) ==
    <<LOD(Len(body) + 3, 0), LOD(Len(body) + 4, 1)>> \o body \o <<HLT, x, y>>

LdiPrograms ==
    {WithData(<<LDI(v, d)>>, Lit(8), U32Max) : v \in Imms, d \in RegIndex}

ArithPrograms ==
    {WithData(<<ADD(r[1], r[2], r[3])>>, x, y) :
        r \in {<<0, 1, 2>>, <<1, 0, 0>>, <<0, 0, 3>>, <<5, 1, 2>>},
        x \in DataWords, y \in DataWords}
    \cup
    {WithData(<<SUB(r[1], r[2], r[3])>>, x, y) :
        r \in {<<0, 1, 2>>, <<1, 0, 0>>, <<0, 0, 3>>, <<5, 1, 2>>},
        x \in DataWords, y \in DataWords}

ComparePrograms ==
    {WithData(<<CMP(v, r)>>, x, Lit(10)) :
        v \in {0, 8, 65535}, r \in {0, 1}, x \in DataWords}

JumpPrograms ==
    {<<JMP(t)>> : t \in 0..31} \cup {<<NOP, JMP(t)>> : t \in 0..31}

ConditionalJumpPrograms ==
    {<<LDI(x, 0), CMP(8, 0), j, HLT>> :
        x \in {5, 8, 10},
        j \in {JEQ(t) : t \in 0..31} \cup {JGT(t) : t \in 0..31}
              \cup {JLT(t) : t \in 0..31}}

\* a store to every address, code included, and a load back from it
StoreLoadPrograms ==
    {<<LOD(4, 0), STO(a, 0), LOD(a, 2), HLT, x>> :
        a \in RamIndex, x \in DataWords \cup {HLT, LDI(9, 3)}}

\* words no arm of the match takes: opcodes 0 and 11 to 14, and words with bits
\* above the 22 an instruction uses
NoOpPrograms ==
    {<<LDI(3, 1), Enc(op, Lit(n)), LDI(2, 2)>> :
        op \in {0, 11, 12, 13, 14}, n \in {0, 5, 262143}}
    \cup {<<w, LDI(1, 1)>> : w \in {U32Max, [hi |-> 64, lo |-> 0]}}

\* a conditional jump in the last word of memory, behind a compare and no-ops
LastWordPrograms ==
    {<<LDI(x, 0), CMP(8, 0)>> \o [k \in 1..61 |-> NOP] \o <<j>> :
        x \in {5, 8}, j \in {JEQ(2), JGT(2), JLT(2)}}

\* the source text "ldi 5 r0\nldi 4 r1\nadd r0 r1 r2\nhlt"
SpecAddSource ==
    <<"l", "d", "i", " ", "5", " ", "r", "0", "\n", "l", "d", "i", " ", "4", " ", "r",
      "1", "\n", "a", "d", "d", " ", "r", "0", " ", "r", "1", " ", "r", "2", "\n", "h",
      "l", "t">>

\* the demo program as source text
DemoSource ==
    <<"l", "d", "i", " ", "1", " ", "r", "1", "\n", "l", "d", "i", " ", "1", " ", "r",
      "2", "\n", "a", "d", "d", " ", "r", "1", " ", "r", "2", " ", "r", "2", "\n", "c",
      "m", "p", " ", "8", " ", "r", "2", "\n", "j", "l", "t", " ", "2", "\n", "s", "t",
      "o", " ", "1", "8", " ", "r", "2", "\n", "h", "l", "t">>

\* a source whose second line has no known mnemonic: "ldi 1 r1\nxyz 1\nhlt"
UnknownMnemonicSource ==
    <<"l", "d", "i", " ", "1", " ", "r", "1", "\n", "x", "y", "z", " ", "1", "\n", "h",
      "l", "t">>

\* the texts main may find in src/test_files/test.asm
Sources == {SpecAddSource, DemoSource, UnknownMnemonicSource}

\* the length of the generated programs
MaxBody == 2

Alphabet ==
    {LDI(15, 0), LDI(16, 1), ADD(0, 0, 1), SUB(1, 0, 2), CMP(8, 0), JMP(0), JGT(1),
     STO(2, 0), HLT}

\* every program of 1 to MaxBody words of Alphabet
GeneratedPrograms == UNION {[1..n -> Alphabet] : n \in 1..MaxBody}

Programs ==
    {DemoProgram} \cup LdiPrograms \cup ArithPrograms \cup ComparePrograms
    \cup JumpPrograms \cup ConditionalJumpPrograms \cup StoreLoadPrograms
    \cup NoOpPrograms \cup LastWordPrograms \cup GeneratedPrograms

-----------------------------------------------------------------------------
(* The Processor *)

\* usize::MAX.  A usize is kept as an integer; the only value outside 0..63 the
\* program counter can take is usize::MAX (0 - 1 wrapped), written -1 here, so
\* that `+= 1` on it wraps to 0 as it does modulo 2^64.
UsizeMax == -1

\* Processor::new
NewProcessor ==
    /\ registers = [i \in RegIndex |-> ZeroWord]
    /\ program_counter = 0
    /\ ram = [i \in RamIndex |-> ZeroWord]
    /\ flag_register = 0
    /\ halt = FALSE
    /\ instruction = ZeroWord
    /\ at_fetch = [pc |-> 0, flag |-> 0]
    /\ loc = "new"
    /\ bin = <<>>
    /\ overflow_checks \in BOOLEAN

\* main applies none of the free functions on its own: their variables are idle
FunctionsIdle == UNCHANGED <<stage, given, first, second>>

\* the process at its start: main has created the Processor
Init ==
    /\ NewProcessor
    /\ stage = "main"
    /\ given = <<>>
    /\ first = <<>>
    /\ second = <<>>

\* a panic: the process aborts where it stands, nothing more is written
Panic ==
    /\ loc' = "panicked"
    /\ UNCHANGED <<program_counter, ram, flag_register, registers, halt, bin,
                   overflow_checks>>

\* Processor::load_program: ram[i] = program[i], an index panic at i = 64
load_program(program) ==
    [i \in RamIndex |-> IF i + 1 <= Len(program) THEN program[i + 1] ELSE ram[i]]

\* opcode 1
LoadImmediate(operand) ==
    LET immediate_value == ldi_immediate_value(operand)
        target_register == ldi_target_register(operand)
    IN  IF Below(target_register, 4)
        THEN /\ registers' = [registers EXCEPT ![target_register.lo] = immediate_value]
             /\ loc' = "epilogue"
             /\ UNCHANGED <<program_counter, ram, flag_register, halt, bin, overflow_checks>>
        ELSE Panic

\* opcode 2: `+` on u32 panics on overflow in a build with overflow checks and
\* wraps in one without
Add(operand) ==
    LET a == reg_a(operand)
        b == reg_b(operand)
        c == reg_c(operand)
    IN  IF ~Below(a, 4)
        THEN Panic
        ELSE LET r == U32Add(registers[a.lo], registers[b.lo])
             IN  IF r.overflow /\ overflow_checks
                 THEN Panic
                 ELSE /\ registers' = [registers EXCEPT ![c.lo] = r.value]
                      /\ loc' = "epilogue"
                      /\ UNCHANGED <<program_counter, ram, flag_register, halt, bin,
                                     overflow_checks>>

\* opcode 3: `-` on u32, as `+` above
Sub(operand) ==
    LET a == reg_a(operand)
        b == reg_b(operand)
        c == reg_c(operand)
    IN  IF ~Below(a, 4)
        THEN Panic
        ELSE LET r == U32Sub(registers[a.lo], registers[b.lo])
             IN  IF r.overflow /\ overflow_checks
                 THEN Panic
                 ELSE /\ registers' = [registers EXCEPT ![c.lo] = r.value]
                      /\ loc' = "epilogue"
                      /\ UNCHANGED <<program_counter, ram, flag_register, halt, bin,
                                     overflow_checks>>

\* the flag the compare arm sets for `result`
CompareFlag(result) ==
    IF I32Positive(result) THEN 1
    ELSE IF I32Zero(result) THEN 2
    ELSE IF I32Negative(result) THEN 3
    ELSE 0

\* opcode 4
Compare(operand) ==
    LET result == I32Sub(AsI32(registers[register_addr(operand).lo]),
                         AsI32(immed_compare(operand)))
    IN  IF result.overflow /\ overflow_checks
        THEN Panic
        ELSE /\ flag_register' = CompareFlag(result.value)
             /\ loc' = "epilogue"
             /\ UNCHANGED <<program_counter, ram, registers, halt, bin, overflow_checks>>

\* opcode 5
Jump(operand) ==
    /\ program_counter' = jump_addr(operand).lo
    /\ loc' = "epilogue"
    /\ UNCHANGED <<ram, flag_register, registers, halt, bin, overflow_checks>>

\* a faulty variant of JumpFlag: the flags of opcodes 6 and 7 exchanged
JumpFlagExchanged(opcode) == CASE opcode = 6 -> 1 [] opcode = 7 -> 2 [] opcode = 8 -> 3

\* the flag each conditional jump tests: opcode 6 -> 2, 7 -> 1, 8 -> 3
JumpFlag(opcode) == CASE opcode = 6 -> 2 [] opcode = 7 -> 1 [] opcode = 8 -> 3

\* a faulty variant of JumpTargetMinusOne: the 1 not subtracted
JumpTargetItself(addr) == addr

\* `jump_addr as usize - 1`
JumpTargetMinusOne(addr) == IF addr = 0 THEN UsizeMax ELSE addr - 1

\* opcodes 6, 7 and 8
ConditionalJump(opcode, operand) ==
    LET addr == jump_addr(operand).lo
    IN  IF flag_register = JumpFlag(opcode)
        THEN IF addr = 0 /\ overflow_checks
             THEN Panic
             ELSE /\ program_counter' = JumpTargetMinusOne(addr)
                  /\ flag_register' = 0
                  /\ loc' = "epilogue"
                  /\ UNCHANGED <<ram, registers, halt, bin, overflow_checks>>
        ELSE /\ loc' = "epilogue"
             /\ UNCHANGED <<program_counter, ram, flag_register, registers, halt, bin,
                            overflow_checks>>

\* opcode 9
Store(operand) ==
    /\ ram' = [ram EXCEPT ![ram_addr(operand).lo] = registers[reg_addr(operand).lo]]
    /\ loc' = "epilogue"
    /\ UNCHANGED <<program_counter, flag_register, registers, halt, bin, overflow_checks>>

\* opcode 10
Load(operand) ==
    /\ registers' = [registers EXCEPT ![reg_addr(operand).lo] = ram[ram_addr(operand).lo]]
    /\ loc' = "epilogue"
    /\ UNCHANGED <<program_counter, ram, flag_register, halt, bin, overflow_checks>>

\* opcode 15
Halt ==
    /\ halt' = TRUE
    /\ loc' = "epilogue"
    /\ UNCHANGED <<program_counter, ram, flag_register, registers, bin, overflow_checks>>

\* a faulty variant of NoOp: an unrecognized opcode stops the run
NoOpHalts ==
    /\ halt' = TRUE
    /\ loc' = "epilogue"
    /\ UNCHANGED <<program_counter, ram, flag_register, registers, bin, overflow_checks>>

\* any other opcode: `return`
NoOp ==
    /\ loc' = "epilogue"
    /\ UNCHANGED <<program_counter, ram, flag_register, registers, halt, bin,
                   overflow_checks>>

\* the `match opcode` of execute_instruction
Dispatch(opcode, operand) ==
    CASE opcode = 1 -> LoadImmediate(operand)
      [] opcode = 2 -> Add(operand)
      [] opcode = 3 -> Sub(operand)
      [] opcode = 4 -> Compare(operand)
      [] opcode = 5 -> Jump(operand)
      [] opcode \in {6, 7, 8} -> ConditionalJump(opcode, operand)
      [] opcode = 9 -> Store(operand)
      [] opcode = 10 -> Load(operand)
      [] opcode = 15 -> Halt
      [] OTHER -> NoOp

\* Processor::run up to its loop: load the program
RunProgram(program) ==
    /\ bin' = program
    /\ ram' = load_program(program)
    /\ loc' = IF Len(program) > 64 THEN "panicked" ELSE "fetch"
    /\ UNCHANGED <<program_counter, flag_register, registers, halt, instruction,
                   at_fetch, overflow_checks>>

\* run called with the words of a program, as Processor::demo does
Run ==
    /\ loc = "new"
    /\ stage = "main"
    /\ FunctionsIdle
    /\ \E program \in Programs : RunProgram(program)

\* main: assemble the source file and run what it yields
Main ==
    /\ loc = "new"
    /\ stage = "main"
    /\ FunctionsIdle
    /\ \E text \in Sources :
         LET program == assemble(text)
         IN  IF program.panic
             THEN /\ loc' = "panicked"
                  /\ UNCHANGED <<program_counter, ram, flag_register, registers, halt,
                                 instruction, at_fetch, bin, overflow_checks>>
             ELSE RunProgram(program.words)

\* the first half of a cycle of run: `[PC -> ..]` is printed, then
\* fetch_instruction and execute_instruction with its locals `instruction`,
\* `opcode` and `operand` (each bound once, as a `let` binds it)
ExecuteInstruction ==
    /\ loc = "fetch"
    /\ FunctionsIdle
    /\ at_fetch' = [pc |-> program_counter, flag |-> flag_register]
    /\ IF program_counter \in RamIndex
       THEN \E fetched \in {ram[program_counter]} :
              \E opcode \in {Opcode(fetched)}, operand \in {Operand(fetched)} :
                /\ instruction' = fetched
                /\ Dispatch(opcode, operand)
       ELSE instruction' = instruction /\ Panic

\* a faulty variant of RunEnds: the boundary test one address early
RunEndsOneEarly == program_counter = 62 \/ halt

\* `self.program_counter == 63 || self.halt`
RunEnds == program_counter = 63 \/ halt

\* a faulty variant of Advance: the increment left out
AdvanceStuck(pc) == pc

\* `self.program_counter += 1` on a usize
Advance(pc) == IF pc = UsizeMax THEN 0 ELSE pc + 1

\* the second half of a cycle of run: stop at address 63 or on halt, else advance
Epilogue ==
    /\ loc = "epilogue"
    /\ FunctionsIdle
    /\ IF RunEnds
       THEN /\ program_counter' = 0
            /\ halt' = FALSE
            /\ loc' = "returned"
       ELSE IF program_counter = UsizeMax /\ overflow_checks
            THEN loc' = "panicked" /\ UNCHANGED <<program_counter, halt>>
            ELSE /\ program_counter' = Advance(program_counter)
                 /\ halt' = halt
                 /\ loc' = "fetch"
    /\ UNCHANGED <<ram, flag_register, registers, instruction, at_fetch, bin,
                   overflow_checks>>

Next == Run \/ Main \/ ExecuteInstruction \/ Epilogue

Spec == Init /\ [][Next]_vars

\* The loop of run has no scheduling of its own: once main has started, each
\* step follows the last, which weak fairness of the next-state relation states.
FairSpec == Spec /\ WF_vars(Next)

-----------------------------------------------------------------------------
(* The instruction format as the specification lays it out: bits 18 to 21   *)
(* are the opcode, bits 0 to 17 the operand, each field of the operand at   *)
(* the width and place of the table of section 4.1.                         *)

\* the word uses only its low 22 bits
Is22Bit(w) == w.hi < 64

\* bits 18 to 21 of the word
FormatOpcode(w) == (w.hi \div 4) % 16

\* bits 0 to 17 of the word, as a number
FormatOperand(w) == (w.hi % 4) * W16 + w.lo

\* the `width` bits of the operand from bit `low` up
Field(w, low, width) == (FormatOperand(w) \div Pow2(low)) % Pow2(width)

\* the word about to be fetched, and whether a cycle is about to fetch it
Fetching == loc = "fetch" /\ program_counter \in RamIndex
NextWord == ram[program_counter]

\* a cycle has executed its instruction and its epilogue is to come
Executed == loc = "epilogue"

-----------------------------------------------------------------------------
(* C1 *)

\* C1: executing load-immediate (opcode 1) with 16-bit immediate v and 2-bit
\* destination d leaves registers[d] = v and changes no other register, no
\* memory word and not the flag.
C1_LoadImmediateSetsRegister ==
    [][(Fetching /\ Is22Bit(NextWord) /\ FormatOpcode(NextWord) = 1)
        => /\ loc' = "epilogue"
           /\ registers' = [registers EXCEPT
                              ![Field(NextWord, 0, 2)] = Lit(Field(NextWord, 2, 16))]
           /\ ram' = ram
           /\ flag_register' = flag_register]_vars

-----------------------------------------------------------------------------
(* C2 *)

\* C2: after the run loop executes an unconditional jump (opcode 5) with 5-bit
\* target t, the next instruction the loop fetches is the word at memory[t].
C2_JumpFetchesTarget ==
    [][(Executed /\ Is22Bit(instruction) /\ FormatOpcode(instruction) = 5)
        => /\ loc' = "fetch"
           /\ program_counter' = Field(instruction, 0, 5)]_vars

-----------------------------------------------------------------------------
(* C3 *)

\* the flag code the specification pairs with each conditional jump
FormatJumpFlag(opcode) == CASE opcode = 6 -> 2 [] opcode = 7 -> 1 [] opcode = 8 -> 3

\* C3: a conditional jump (opcode 6, 7, 8) executed with the flag equal to its
\* code (2, 1, 3) is followed, for every target t in 0..31, by the fetch of
\* memory[t], with the flag 0 at that fetch.
C3_TakenJumpFetchesTarget ==
    [][/\ (Fetching /\ Is22Bit(NextWord) /\ FormatOpcode(NextWord) \in {6, 7, 8}
             /\ flag_register = FormatJumpFlag(FormatOpcode(NextWord)))
          => loc' = "epilogue"
       /\ (Executed /\ Is22Bit(instruction) /\ FormatOpcode(instruction) \in {6, 7, 8}
             /\ at_fetch.flag = FormatJumpFlag(FormatOpcode(instruction)))
          => /\ loc' = "fetch"
             /\ program_counter' = Field(instruction, 0, 5)
             /\ flag_register' = 0]_vars

-----------------------------------------------------------------------------
(* C4 *)

\* a > b and a = b on u32
U32Greater(a, b) == a.hi > b.hi \/ (a.hi = b.hi /\ a.lo > b.lo)

\* the flag of an unsigned comparison of a register value with an immediate:
\* 1 greater, 2 equal, 3 less
FormatCompareFlag(value, immediate) ==
    IF U32Greater(value, immediate) THEN 1
    ELSE IF value = immediate THEN 2
    ELSE 3

\* C4: compare (opcode 4) with 16-bit immediate v and register r sets the flag
\* to 1 when registers[r] > v, 2 when equal, 3 when less, for every value a u32
\* register can hold; registers, memory and halt are unchanged and the flag is
\* never left at 0.
C4_CompareSetsFlag ==
    [][(Fetching /\ Is22Bit(NextWord) /\ FormatOpcode(NextWord) = 4)
        => /\ loc' = "epilogue"
           /\ flag_register' = FormatCompareFlag(registers[Field(NextWord, 0, 2)],
                                                 Lit(Field(NextWord, 2, 16)))
           /\ flag_register' # 0
           /\ registers' = registers
           /\ ram' = ram
           /\ halt' = halt]_vars

-----------------------------------------------------------------------------
(* C5 *)

\* C5: add (opcode 2) and sub (opcode 3) with register indices a, b, c store
\* (registers[a] + registers[b]) mod 2^32, respectively
\* (registers[a] - registers[b]) mod 2^32, into registers[c] for all register
\* values, overflowing ones included, and never trap or abort the run.
C5_AddSubWrap ==
    [][(Fetching /\ Is22Bit(NextWord) /\ FormatOpcode(NextWord) \in {2, 3}
          /\ FormatOperand(NextWord) < 64)
        => LET a == registers[Field(NextWord, 4, 2)]
               b == registers[Field(NextWord, 2, 2)]
               r == IF FormatOpcode(NextWord) = 2 THEN U32Add(a, b).value
                                                  ELSE U32Sub(a, b).value
           IN  /\ loc' = "epilogue"
               /\ registers' = [registers EXCEPT ![Field(NextWord, 0, 2)] = r]]_vars

-----------------------------------------------------------------------------
(* C6 *)

\* C6: the run loop terminates only at the end of a cycle in which the halt
\* flag is set or the program counter equals 63, and whenever run returns the
\* program counter is 0 and the halt flag false, whatever program was loaded.
C6_RunReturnsReset ==
    [][/\ (loc # "returned" /\ loc' = "returned")
          => /\ Executed
             /\ halt \/ program_counter = 63
             /\ program_counter' = 0
             /\ halt' = FALSE
       /\ loc = "returned"
          => /\ program_counter = 0 /\ halt = FALSE
             /\ program_counter' = 0 /\ halt' = FALSE]_vars

\* a run has returned from the cycle at address 63 with no halt executed
C6_Witness ==
    loc = "returned" /\ at_fetch.pc = 63 /\ Opcode(instruction) # 15
    /\ program_counter = 0 /\ halt = FALSE

-----------------------------------------------------------------------------
(* C7 *)

\* no word of the program has the halt opcode
NoHalt(program) == \A i \in 1..Len(program) : FormatOpcode(program[i]) # 15

\* the run is over: it has returned, or the process has aborted
Ended == loc \in {"returned", "panicked"}

\* C7 as stated: a run of any program that contains no halt instruction
\* terminates (the end of the run is taken to include an abort, so that what
\* refutes the statement is a run that goes on for ever).
C7_NoHaltTerminates ==
    [](loc = "fetch" /\ NoHalt(bin) => <>Ended)

\* a jump instruction has just been executed
JumpExecuted == Executed /\ Opcode(instruction) \in {5, 6, 7, 8}

\* C7 as amended: a run in which no halt instruction is executed ends (it
\* returns, or aborts in a panic) unless it executes jump instructions for
\* ever; when it returns, it returns exactly in the cycle in which the program
\* counter is 63, leaving pc = 0 and halt = FALSE.
C7_NoHaltTerminatesUnlessJumping ==
    /\ [][(Executed /\ Opcode(instruction) # 15 /\ loc' = "returned")
           => /\ program_counter = 63
              /\ program_counter' = 0
              /\ halt' = FALSE]_vars
    /\ [](loc = "fetch" => (<>Ended \/ []<>JumpExecuted))

\* a program with no halt word has run off the end of memory and returned
C7_Witness ==
    loc = "returned" /\ NoHalt(bin) /\ bin # <<>> /\ at_fetch.pc = 63

-----------------------------------------------------------------------------
(* C8 *)

\* the words `assemble` yields for the four lines ldi 5 r0 / ldi 4 r1 /
\* add r0 r1 r2 / hlt
SpecAddProgram == assemble(SpecAddSource).words

\* C8 as stated: assembling the four lines and running the result on a new VM
\* yields registers[2] = 9 and the halt flag true when the run has finished.
C8_SumIsNineAndHaltTrue ==
    (loc = "returned" /\ Len(bin) = 4 /\ bin = SpecAddProgram)
        => registers[2] = Lit(9) /\ halt = TRUE

\* C8 as amended: the four lines assemble without a panic, and the run of the
\* result on a new VM finishes with registers[2] = 9; the halt flag is true
\* in the last cycle, once hlt is executed, and false again (with pc = 0) when
\* the run has finished.
C8_SumIsNineAndHaltReset ==
    /\ loc = "new" => ~assemble(SpecAddSource).panic /\ Len(SpecAddProgram) = 4
    /\ (Len(bin) = 4 /\ bin = SpecAddProgram)
        => /\ loc # "panicked"
           /\ (Executed /\ FormatOpcode(instruction) = 15)
                => registers[2] = Lit(9) /\ halt = TRUE
           /\ loc = "returned"
                => registers[2] = Lit(9) /\ halt = FALSE /\ program_counter = 0

\* the run of the assembled four lines has finished, with 5 and 4 in r0 and r1
C8_Witness ==
    /\ loc = "returned"
    /\ Len(bin) = 4 /\ bin = SpecAddProgram
    /\ registers[0] = Lit(5) /\ registers[1] = Lit(4) /\ registers[2] = Lit(9)

-----------------------------------------------------------------------------
(* C9 *)

\* the opcodes no instruction uses
UnusedOpcodes == {0, 11, 12, 13, 14}

\* C9: executing a word whose opcode is 0 or 11 to 14 is a no-op: registers,
\* memory, flag and halt are unchanged, no error is raised, and the program
\* counter advances by exactly 1 (unless it is 63, where the run ends).
C9_UnusedOpcodeIsNoOp ==
    [][/\ (Fetching /\ FormatOpcode(NextWord) \in UnusedOpcodes)
          => /\ loc' = "epilogue"
             /\ UNCHANGED <<registers, ram, flag_register, halt, program_counter>>
       /\ (Executed /\ FormatOpcode(instruction) \in UnusedOpcodes)
          => /\ UNCHANGED <<registers, ram, flag_register>>
             /\ IF program_counter = 63
                THEN loc' = "returned"
                ELSE /\ loc' = "fetch"
                     /\ program_counter' = program_counter + 1
                     /\ halt' = halt]_vars

\* the word at address 1, of opcode 12, has been passed over: the next fetch
\* is at address 2 and r1 still holds the 3 loaded before it
C9_Witness ==
    /\ loc = "fetch"
    /\ FormatOpcode(instruction) = 12
    /\ at_fetch.pc = 1 /\ program_counter = 2
    /\ registers[1] = Lit(3)

-----------------------------------------------------------------------------
(* C10 *)

\* C10: store (opcode 9) with 6-bit address a and register r sets memory[a] to
\* registers[r] and changes nothing else; load (opcode 10) from a into r' sets
\* registers[r'] to memory[a] and changes nothing else; no step of a run but a
\* store changes memory, so a later load from a with no store to a between
\* reads the stored value; and this for every a in 0..63, the addresses that
\* hold code included, where a later fetch decodes the stored value.
C10_StoreThenLoad ==
    [][/\ (Fetching /\ Is22Bit(NextWord) /\ FormatOpcode(NextWord) = 9)
          => /\ loc' = "epilogue"
             /\ ram' = [ram EXCEPT
                          ![Field(NextWord, 2, 6)] = registers[Field(NextWord, 0, 2)]]
             /\ UNCHANGED <<registers, flag_register, halt, program_counter>>
       /\ (Fetching /\ Is22Bit(NextWord) /\ FormatOpcode(NextWord) = 10)
          => /\ loc' = "epilogue"
             /\ registers' = [registers EXCEPT
                                ![Field(NextWord, 0, 2)] = ram[Field(NextWord, 2, 6)]]
             /\ UNCHANGED <<ram, flag_register, halt, program_counter>>
       /\ (loc # "new" /\ ~(Fetching /\ Is22Bit(NextWord) /\ FormatOpcode(NextWord) = 9))
          => ram' = ram
       /\ Fetching => instruction' = NextWord]_vars

\* the word of `ldi 9 r3` was stored over the halt at address 3, loaded back
\* into r2, and then fetched from address 3 and executed
C10_Witness ==
    /\ Executed
    /\ at_fetch.pc = 3
    /\ instruction = LDI(9, 3)
    /\ ram[3] = LDI(9, 3)
    /\ registers[0] = LDI(9, 3)
    /\ registers[2] = LDI(9, 3)
    /\ registers[3] = Lit(9)

-----------------------------------------------------------------------------
(* The free functions.  Each is applied to arguments drawn at the start,    *)
(* on a process whose Processor is new and stays so.                        *)

ProcessorIdle ==
    UNCHANGED <<program_counter, ram, flag_register, registers, halt, instruction,
                at_fetch, loc, bin, overflow_checks>>

-----------------------------------------------------------------------------
(* C11: packing a word as assemble does, cutting it as execute_instruction  *)
(* does                                                                     *)

\* operands within 18 bits: the ends of the range, of each half, and mixed bits
OperandSamples ==
    {Lit(n) : n \in {0, 1, 2, 3, 21, 63, 64, 255, 65535, 65536, 131071, 131072,
                     174762, 262143}}

EncodeInit ==
    /\ NewProcessor
    /\ stage = "encode"
    /\ given \in [opcode : 0..15, operand : OperandSamples]
    /\ first = <<>>
    /\ second = <<>>

\* `output_ins <<= 18; output_ins = output_ins | operand`
Encode ==
    /\ stage = "encode"
    /\ first' = Enc(given.opcode, given.operand)
    /\ stage' = "decode"
    /\ UNCHANGED <<given, second>>
    /\ ProcessorIdle

\* `let opcode = instruction >> 18; let operand = instruction & (!(0b1111 << 18))`
Decode ==
    /\ stage = "decode"
    /\ second' = [opcode |-> Opcode(first), operand |-> Operand(first)]
    /\ stage' = "decoded"
    /\ UNCHANGED <<given, first>>
    /\ ProcessorIdle

EncodeNext == Encode \/ Decode

EncodeSpec == EncodeInit /\ [][EncodeNext]_vars

\* C11: for every opcode 0..15 and every operand within 18 bits, decoding the
\* word (opcode << 18) | operand yields exactly (opcode, operand), the opcode
\* being word >> 18 and the operand word & 0x3FFFF.
C11_DecodeEncode ==
    stage = "decoded"
        => /\ second.opcode = given.opcode
           /\ second.operand = given.operand
           /\ second.opcode = first.hi \div 4
           /\ second.operand = [hi |-> first.hi % 4, lo |-> first.lo]
           /\ first.hi = given.opcode * 4 + given.operand.hi
           /\ first.lo = given.operand.lo

\* opcode 15 with the operand of 18 one-bits was packed and cut apart again
C11_Witness ==
    /\ stage = "decoded"
    /\ given = [opcode |-> 15, operand |-> Lit(262143)]
    /\ first = [hi |-> 63, lo |-> 65535]
    /\ second = given

-----------------------------------------------------------------------------
(* The disassembler: get_opcode_name, get_opcode_name_long and              *)
(* print_as_assembly.  A String is a sequence of characters.                *)

\* `to_ascii_uppercase` on one character
AsciiUppercase(c) ==
    CASE c = "a" -> "A"
      [] c = "b" -> "B"
      [] c = "c" -> "C"
      [] c = "d" -> "D"
      [] c = "e" -> "E"
      [] c = "f" -> "F"
      [] c = "g" -> "G"
      [] c = "h" -> "H"
      [] c = "i" -> "I"
      [] c = "j" -> "J"
      [] c = "k" -> "K"
      [] c = "l" -> "L"
      [] c = "m" -> "M"
      [] c = "n" -> "N"
      [] c = "o" -> "O"
      [] c = "p" -> "P"
      [] c = "q" -> "Q"
      [] c = "r" -> "R"
      [] c = "s" -> "S"
      [] c = "t" -> "T"
      [] c = "u" -> "U"
      [] c = "v" -> "V"
      [] c = "w" -> "W"
      [] c = "x" -> "X"
      [] c = "y" -> "Y"
      [] c = "z" -> "Z"
      [] OTHER -> c

to_ascii_uppercase(name) == [i \in 1..Len(name) |-> AsciiUppercase(name[i])]

\* the `match opcode` of get_opcode_name
OpcodeName(opcode) ==
    CASE opcode = 0 -> <<"n", "o", "p">>
      [] opcode = 1 -> <<"l", "d", "i">>
      [] opcode = 2 -> <<"a", "d", "d">>
      [] opcode = 3 -> <<"s", "u", "b">>
      [] opcode = 4 -> <<"c", "m", "p">>
      [] opcode = 5 -> <<"j", "m", "p">>
      [] opcode = 6 -> <<"j", "g", "t">>
      [] opcode = 7 -> <<"j", "e", "q">>
      [] opcode = 8 -> <<"j", "l", "t">>
      [] opcode = 9 -> <<"s", "t", "o">>
      [] opcode = 10 -> <<"l", "o", "d">>
      [] opcode = 15 -> <<"h", "l", "t">>
      [] OTHER -> <<>>

get_opcode_name(opcode, use_uppercase) ==
    IF use_uppercase THEN to_ascii_uppercase(OpcodeName(opcode)) ELSE OpcodeName(opcode)

\* the `match opcode` of get_opcode_name_long
OpcodeNameLong(opcode) ==
    CASE opcode = 0 -> <<"N", "O", "-", "O", "P">>
      [] opcode = 1 -> <<"L", "O", "A", "D", " ", "I", "M", "M", "E", "D", "I", "A", "T", "E">>
      [] opcode = 2 -> <<"A", "D", "D">>
      [] opcode = 3 -> <<"S", "U", "B", "T", "R", "A", "C", "T">>
      [] opcode = 4 -> <<"C", "O", "M", "P", "A", "R", "E">>
      [] opcode = 5 -> <<"J", "U", "M", "P">>
      [] opcode = 6 -> <<"J", "U", "M", "P", " ", "I", "F", " ", "G", "R", "E", "A", "T", "E", "R", " ", "T", "H", "A", "N">>
      [] opcode = 7 -> <<"J", "U", "M", "P", " ", "I", "F", " ", "E", "Q", "U", "A", "L">>
      [] opcode = 8 -> <<"J", "U", "M", "P", " ", "I", "F", " ", "L", "E", "S", "S", " ", "T", "H", "A", "N">>
      [] opcode = 9 -> <<"S", "T", "O", "R", "E">>
      [] opcode = 10 -> <<"L", "O", "A", "D">>
      [] opcode = 15 -> <<"H", "A", "L", "T">>
      [] OTHER -> <<>>

\* get_opcode_name_long: the name with a newline added
get_opcode_name_long(opcode) == OpcodeNameLong(opcode) \o <<"\n">>

\* the character of a decimal digit
DigitChar(d) == <<"0", "1", "2", "3", "4", "5", "6", "7", "8", "9">>[d + 1]

\* x / 10 and x % 10 on a u32
DivMod10(x) ==
    LET t == (x.hi % 10) * W16 + x.lo
    IN  [quot |-> [hi |-> x.hi \div 10, lo |-> t \div 10], rem |-> t % 10]

\* `u32::to_string`: the decimal digits, no leading zero
RECURSIVE to_string(_)
to_string(x) ==
    IF x.hi = 0 /\ x.lo < 10 THEN <<DigitChar(x.lo)>>
    ELSE to_string(DivMod10(x).quot) \o <<DigitChar(DivMod10(x).rem)>>

\* print_as_assembly: the final_string it prints for a word
print_as_assembly(word) ==
    LET opcode == Opcode(word)
        operand == Operand(word)
    IN  get_opcode_name_long(opcode) \o
        (IF opcode = 1
         THEN LET immediate_value == Shr(operand, 2)
                  target_register == BitAnd(operand, BitNot(Shl(Lit(15), 2)))
              IN  to_string(immediate_value) \o <<" ", "R">> \o to_string(target_register)
         ELSE <<>>)

-----------------------------------------------------------------------------
(* Source texts for the assembler *)

\* the decimal text of a natural number
RECURSIVE DecimalText(_)
DecimalText(n) ==
    IF n < 10 THEN <<DigitChar(n)>> ELSE DecimalText(n \div 10) \o <<DigitChar(n % 10)>>

\* the lines `<mnemonic> <v> r<r>`, `<mnemonic> r<a> r<b> r<c>` and `<mnemonic> <t>`
ImmRegLine(mnemonic, v, r) ==
    mnemonic \o <<" ">> \o DecimalText(v) \o <<" ", "r">> \o DecimalText(r)

RegsLine(mnemonic, a, b, c) ==
    mnemonic \o <<" ", "r">> \o DecimalText(a) \o <<" ", "r">> \o DecimalText(b)
             \o <<" ", "r">> \o DecimalText(c)

AddrLine(mnemonic, t) == mnemonic \o <<" ">> \o DecimalText(t)

\* the mnemonics `assemble` matches, by the operands they take
ImmRegMnemonics == {<<"l", "d", "i">>, <<"c", "m", "p">>, <<"s", "t", "o">>, <<"l", "o", "d">>}
RegsMnemonics == {<<"a", "d", "d">>, <<"s", "u", "b">>}
AddrMnemonics == {<<"j", "m", "p">>, <<"j", "e", "q">>, <<"j", "g", "t">>, <<"j", "l", "t">>}
HltMnemonic == <<"h", "l", "t">>
Mnemonics == ImmRegMnemonics \cup RegsMnemonics \cup AddrMnemonics \cup {HltMnemonic}

\* the width in bits of the value `<v>` of a line `<mnemonic> <v> r<r>`: 16 for
\* an immediate, 6 for a memory address
ValueBits(mnemonic) == IF mnemonic \in {<<"s", "t", "o">>, <<"l", "o", "d">>} THEN 6 ELSE 16

\* 16-bit immediates: one digit, below and above the 4 bits, the largest
Imm16Samples == {0, 1, 9, 15, 16, 255, 4096, 65535}

\* `ldi v rd` for every sample immediate and every register
LdiSources == {ImmRegLine(<<"l", "d", "i">>, v, d) : v \in Imm16Samples, d \in RegIndex}

\* one line of each mnemonic, its operands within their fields
MnemonicSources ==
    {ImmRegLine(m, 18, 2) : m \in ImmRegMnemonics}
    \cup {RegsLine(m, 1, 2, 3) : m \in RegsMnemonics}
    \cup {AddrLine(m, 3) : m \in AddrMnemonics}
    \cup {HltMnemonic}

\* lines with one operand too wide for its field: the first value past the
\* field, and values that reach the opcode bits
WideValueSources ==
    UNION {{ImmRegLine(m, v, 1) : v \in {Pow2(ValueBits(m)), 131072, 786432}} :
             m \in ImmRegMnemonics}
WideRegisterSources ==
    {ImmRegLine(m, 1, r) : m \in ImmRegMnemonics, r \in {4, 7, 262144}}
    \cup {RegsLine(m, r[1], r[2], r[3]) :
            m \in RegsMnemonics, r \in {<<4, 0, 1>>, <<0, 4, 1>>, <<0, 1, 4>>, <<16384, 0, 0>>}}
WideAddrSources == {AddrLine(m, t) : m \in AddrMnemonics, t \in {32, 33, 64, 262144}}

\* texts with a line of no known mnemonic: xyz on line 1, 2 and 3, and `nop`,
\* which the disassembler names and the assembler does not know
UnknownMnemonicSources ==
    {<<"x", "y", "z", " ", "1", "\n", "h", "l", "t">>,
     UnknownMnemonicSource,
     <<"l", "d", "i", " ", "1", " ", "r", "1", "\n", "h", "l", "t", "\n", "x", "y", "z", " ", "1">>,
     <<"n", "o", "p", "\n", "h", "l", "t">>}

\* the texts given to assemble
AsmSources ==
    Sources \cup LdiSources \cup MnemonicSources \cup WideValueSources
    \cup WideRegisterSources \cup WideAddrSources \cup UnknownMnemonicSources

-----------------------------------------------------------------------------
(* assemble, and the disassembly of what it returned *)

AsmInit ==
    /\ NewProcessor
    /\ stage = "assemble"
    /\ given \in AsmSources
    /\ first = <<>>
    /\ second = <<>>

\* assemble(program_str): the words, or the panic that aborts the process
Assemble ==
    /\ stage = "assemble"
    /\ first' = assemble(given)
    /\ stage' = IF first'.panic THEN "panicked" ELSE "disassemble"
    /\ UNCHANGED <<given, second>>
    /\ ProcessorIdle

\* the names and the rendering of each assembled word
Disassemble ==
    /\ stage = "disassemble"
    /\ \E use_uppercase \in BOOLEAN :
         second' = [i \in 1..Len(first.words) |->
                      [use_uppercase |-> use_uppercase,
                       name |-> get_opcode_name(Opcode(first.words[i]), use_uppercase),
                       long_name |-> get_opcode_name_long(Opcode(first.words[i])),
                       final_string |-> print_as_assembly(first.words[i])]]
    /\ stage' = "disassembled"
    /\ UNCHANGED <<given, first>>
    /\ ProcessorIdle

AsmNext == Assemble \/ Disassemble

AsmSpec == AsmInit /\ [][AsmNext]_vars

-----------------------------------------------------------------------------
(* C12 *)

\* C12: for every 16-bit immediate v and register index d in 0..3,
\* disassembling the word the assembler produces for the line `ldi v rd`
\* renders immediate v and register d.
C12_LdiRoundTrip ==
    \A v \in Imm16Samples, d \in RegIndex :
        given = ImmRegLine(<<"l", "d", "i">>, v, d)
            => /\ stage # "panicked"
               /\ stage = "disassembled"
                    => /\ Len(second) = 1
                       /\ second[1].final_string =
                            get_opcode_name_long(1) \o DecimalText(v) \o <<" ", "R">>
                                \o DecimalText(d)

-----------------------------------------------------------------------------
(* machine_code_as_bin_raw and bin_raw_as_machine_code.  A u8 is a number   *)
(* in 0..255.                                                               *)

\* `x.to_le_bytes()`
to_le_bytes(x) == <<x.lo % 256, x.lo \div 256, x.hi % 256, x.hi \div 256>>

\* a faulty variant of from_le_bytes: the bytes taken most-significant first
from_be_bytes(x) == [hi |-> x[1] * 256 + x[2], lo |-> x[3] * 256 + x[4]]

\* `u32::from_le_bytes(x)`
from_le_bytes(x) == [hi |-> x[4] * 256 + x[3], lo |-> x[2] * 256 + x[1]]

\* `program.iter().flat_map(|x| x.to_le_bytes()).collect()`
RECURSIVE machine_code_as_bin_raw(_)
machine_code_as_bin_raw(program) ==
    IF program = <<>> THEN <<>>
    ELSE to_le_bytes(Head(program)) \o machine_code_as_bin_raw(Tail(program))

\* `bytes.chunks_exact(4)`: the whole chunks of 4, the remainder left out
RECURSIVE chunks_exact(_)
chunks_exact(bytes) ==
    IF Len(bytes) < 4 THEN <<>>
    ELSE <<SubSeq(bytes, 1, 4)>> \o chunks_exact(SubSeq(bytes, 5, Len(bytes)))

\* `.map(|x| u32::from_le_bytes(x.try_into().unwrap())).collect()`
bin_raw_as_machine_code(bytes) ==
    LET chunks == chunks_exact(bytes)
    IN  [i \in 1..Len(chunks) |-> from_le_bytes(chunks[i])]

\* the longest word sequence and the longest byte sequence converted
MaxWords == 2
MaxBytes == 5

\* words: 0, 1, four different bytes (0x04030201), u32::MAX, two instructions
WordSamples == {Lit(0), Lit(1), [hi |-> 1027, lo |-> 513], U32Max, LDI(1, 1), HLT}

ByteSamples == {0, 1, 255}

WordSequences == UNION {[1..n -> WordSamples] : n \in 0..MaxWords}
ByteSequences == UNION {[1..n -> ByteSamples] : n \in 0..MaxBytes}

\* a program to convert to bytes and back, or bytes (of a file) to convert to words
RawInit ==
    /\ NewProcessor
    /\ \/ stage = "words" /\ given \in WordSequences
       \/ stage = "bytes" /\ given \in ByteSequences
    /\ first = <<>>
    /\ second = <<>>

MachineCodeAsBinRaw ==
    /\ stage = "words"
    /\ first' = machine_code_as_bin_raw(given)
    /\ stage' = "raw_bytes"
    /\ UNCHANGED <<given, second>>
    /\ ProcessorIdle

\* applied to the bytes the program was converted to, or to the bytes given;
\* it returns a Vec<u32> in every case
BinRawAsMachineCode ==
    /\ stage \in {"raw_bytes", "bytes"}
    /\ second' = bin_raw_as_machine_code(IF stage = "raw_bytes" THEN first ELSE given)
    /\ stage' = IF stage = "raw_bytes" THEN "round_trip" ELSE "machine_code"
    /\ UNCHANGED <<given, first>>
    /\ ProcessorIdle

RawNext == MachineCodeAsBinRaw \/ BinRawAsMachineCode

RawSpec == RawInit /\ [][RawNext]_vars

-----------------------------------------------------------------------------
(* C13 *)

\* byte k (1 the least significant) of a 32-bit word
ByteOf(w, k) ==
    CASE k = 1 -> w.lo % 256
      [] k = 2 -> (w.lo \div 256) % 256
      [] k = 3 -> w.hi % 256
      [] k = 4 -> (w.hi \div 256) % 256

\* C13: for any sequence w of 32-bit words, converting w to bytes (4 bytes per
\* word, least-significant byte first) and converting those bytes back yields
\* exactly w, in the same order and with the same length.
C13_BytesRoundTrip ==
    /\ stage \in {"raw_bytes", "round_trip"}
        => /\ Len(first) = 4 * Len(given)
           /\ \A i \in 1..Len(given), k \in 1..4 :
                first[4 * (i - 1) + k] = ByteOf(given[i], k)
    /\ stage = "round_trip" => second = given

\* the words 0x04030201 and hlt went to the bytes 1 2 3 4 0 0 60 0 and back
C13_Witness ==
    /\ stage = "round_trip"
    /\ given = <<[hi |-> 1027, lo |-> 513], HLT>>
    /\ first = <<1, 2, 3, 4, 0, 0, 60, 0>>
    /\ second = given

-----------------------------------------------------------------------------
(* C14 *)

\* C14: converting a byte sequence to words when its length is not a multiple
\* of 4 is reported as an error; no word sequence is returned for such an
\* input.
C14_TruncatedInputIsError ==
    [][(stage = "bytes" /\ Len(given) % 4 # 0) => stage' # "machine_code"]_vars

-----------------------------------------------------------------------------
(* C15 *)

\* the line starts with a mnemonic the assembler knows
KnownMnemonic(line) ==
    LET terms == SplitWhitespace(line, 1, <<>>)
    IN  terms # <<>> /\ terms[1] \in Mnemonics

\* the 1-based numbers of the lines of a text that have no known mnemonic
UnknownMnemonicLines(text) ==
    LET lines == SplitLines(text, 1, <<>>)
    IN  {i \in 1..Len(lines) : ~KnownMnemonic(lines[i])}

\* the words of the lines of a text that have a known mnemonic
KnownLinesWords(text) ==
    AssembleLines(SelectSeq(SplitLines(text, 1, <<>>), KnownMnemonic), 1, <<>>).words

\* C15: assembling a text in which some line has an unrecognized mnemonic
\* reports that line (by its 1-based number) and does not abort the assembler:
\* the remaining lines are still assembled.
C15_UnknownMnemonicDoesNotAbort ==
    [][(stage = "assemble" /\ UnknownMnemonicLines(given) # {})
        => /\ stage' # "panicked"
           /\ ~first'.panic
           /\ first'.words = KnownLinesWords(given)]_vars

-----------------------------------------------------------------------------
(* C16 *)

\* the one-line texts in which an operand does not fit its field
WideOperandSources == WideValueSources \cup WideRegisterSources \cup WideAddrSources

\* the opcode of the mnemonic a one-line text starts with
LineOpcode(line) == MnemonicOpcode(SplitWhitespace(line, 1, <<>>)[1])

\* C16: assembling a line whose operand value does not fit the field width of
\* its opcode (an immediate >= 2^16, a jump target >= 32, a memory address
\* >= 64, a register index >= 4) yields an error for that line; the assembler
\* never emits a word in which such an operand has spilled into a neighbouring
\* field or into the opcode bits.
C16_WideOperandIsError ==
    [][(stage = "assemble" /\ given \in WideOperandSources)
        => /\ first'.words = <<>>
           /\ \A i \in 1..Len(first'.words) :
                /\ Is22Bit(first'.words[i])
                /\ FormatOpcode(first'.words[i]) = LineOpcode(given)]_vars

-----------------------------------------------------------------------------
(* C17 *)

\* a conditional jump is about to be executed, or has been, with the flag
\* different from its code
UntakenJumpNext ==
    /\ Fetching /\ Is22Bit(NextWord) /\ FormatOpcode(NextWord) \in {6, 7, 8}
    /\ flag_register # FormatJumpFlag(FormatOpcode(NextWord))

UntakenJumpExecuted ==
    /\ Executed /\ Is22Bit(instruction) /\ FormatOpcode(instruction) \in {6, 7, 8}
    /\ at_fetch.flag # FormatJumpFlag(FormatOpcode(instruction))

\* C17 as stated: when a conditional jump (opcode 6, 7 or 8) is executed with
\* the flag different from its code, registers, memory, flag and halt are all
\* unchanged (the flag is not cleared) and the program counter advances by
\* exactly 1.
C17_UntakenJumpAdvances ==
    [][/\ UntakenJumpNext
          => /\ loc' = "epilogue"
             /\ UNCHANGED <<registers, ram, flag_register, halt, program_counter>>
       /\ UntakenJumpExecuted
          => /\ UNCHANGED <<registers, ram, flag_register, halt>>
             /\ program_counter' = program_counter + 1]_vars

\* C17 as amended: the same, except that at address 63 the cycle ends the run,
\* which resets the program counter to 0.
C17_UntakenJumpAdvancesOrEnds ==
    [][/\ UntakenJumpNext
          => /\ loc' = "epilogue"
             /\ UNCHANGED <<registers, ram, flag_register, halt, program_counter>>
       /\ UntakenJumpExecuted
          => /\ UNCHANGED <<registers, ram, flag_register, halt>>
             /\ IF program_counter = 63
                THEN loc' = "returned" /\ program_counter' = 0
                ELSE loc' = "fetch" /\ program_counter' = program_counter + 1]_vars

\* a conditional jump at address 2 was passed over with the flag 3 of the
\* compare before it, which is still set at the fetch of address 3
C17_Witness ==
    /\ loc = "fetch"
    /\ FormatOpcode(instruction) \in {6, 7}
    /\ at_fetch = [pc |-> 2, flag |-> 3]
    /\ flag_register = 3
    /\ program_counter = 3

-----------------------------------------------------------------------------
(* C18 *)

\* the long name that describes the test of a flag: 1 greater, 2 equal, 3 less
ConditionName(flag) ==
    CASE flag = 1 -> <<"J", "U", "M", "P", " ", "I", "F", " ", "G", "R", "E", "A", "T", "E", "R", " ", "T", "H", "A", "N", "\n">>
      [] flag = 2 -> <<"J", "U", "M", "P", " ", "I", "F", " ", "E", "Q", "U", "A", "L", "\n">>
      [] flag = 3 -> <<"J", "U", "M", "P", " ", "I", "F", " ", "L", "E", "S", "S", " ", "T", "H", "A", "N", "\n">>

\* the mnemonic a one-line text starts with
LineMnemonic(line) == SplitWhitespace(line, 1, <<>>)[1]

\* C18: for every mnemonic the assembler accepts, the disassembler's short
\* name for the opcode the assembler assigned is that same mnemonic, and its
\* long name describes the condition the execution engine tests for that
\* opcode (opcode 6 equal, opcode 7 greater-than, opcode 8 less-than).
C18_NamesMatchMnemonics ==
    (stage = "disassembled" /\ given \in MnemonicSources)
        => /\ Len(second) = 1
           /\ Opcode(first.words[1]) = LineOpcode(given)
           /\ ~second[1].use_uppercase => second[1].name = LineMnemonic(given)
           /\ second[1].use_uppercase
                => second[1].name = to_ascii_uppercase(LineMnemonic(given))
           /\ LineOpcode(given) \in {6, 7, 8}
                => /\ second[1].long_name = ConditionName(JumpFlag(LineOpcode(given)))
                   /\ JumpFlag(LineOpcode(given)) = FormatJumpFlag(LineOpcode(given))

-----------------------------------------------------------------------------
(* C19 *)

\* the register indices and the memory address execute_instruction computes
\* for a word, by the arm its opcode takes
RegisterIndicesUsed(w) ==
    LET opcode == Opcode(w)
        operand == Operand(w)
    IN  CASE opcode = 1 -> {ldi_target_register(operand)}
          [] opcode \in {2, 3} -> {reg_a(operand), reg_b(operand), reg_c(operand)}
          [] opcode = 4 -> {register_addr(operand)}
          [] opcode \in {9, 10} -> {reg_addr(operand)}
          [] OTHER -> {}

MemoryAddressesUsed(w) ==
    IF Opcode(w) \in {9, 10} THEN {ram_addr(Operand(w))} ELSE {}

\* C19: in every reachable state of a run, for any memory contents made of
\* 22-bit words, the program counter is within 0..63 and every register index
\* and memory address used by the executed instruction is within 0..3 and
\* 0..63 respectively, so that no cycle indexes outside the register file or
\* memory.
C19_IndicesInRange ==
    /\ program_counter \in RamIndex
    /\ (Fetching /\ Is22Bit(NextWord))
        => /\ \A r \in RegisterIndicesUsed(NextWord) : Below(r, 4)
           /\ \A a \in MemoryAddressesUsed(NextWord) : Below(a, 64)

-----------------------------------------------------------------------------
(* Processor::demo on a new Processor *)

\* Processor::demo: run the built-in program
Demo ==
    /\ loc = "new"
    /\ stage = "main"
    /\ FunctionsIdle
    /\ RunProgram(DemoProgram)

DemoNext == Demo \/ ExecuteInstruction \/ Epilogue

\* the loop of run goes on by itself once demo has called it
DemoSpec == Init /\ [][DemoNext]_vars /\ WF_vars(DemoNext)

-----------------------------------------------------------------------------
(* C20 *)

\* the demo program is what run was given
DemoRunning == Len(bin) = 7 /\ bin = DemoProgram

\* C20: running the built-in demo program on a new VM terminates through its
\* halt instruction, after looping back to the add at address 2 while R2 < 8;
\* at termination registers[2] = 8, registers[1] = 1 and memory[18] = 8.
C20_DemoCountsToEight ==
    /\ [](DemoRunning => loc # "panicked")
    /\ [](DemoRunning /\ loc = "fetch" => <>(loc = "returned"))
    /\ [][(DemoRunning /\ Executed /\ at_fetch.pc = 4)
            => /\ FormatOpcode(instruction) = 8
               /\ loc' = "fetch"
               /\ program_counter' =
                    IF U32Greater(Lit(8), registers[2]) THEN 2 ELSE 5]_vars
    /\ [][(DemoRunning /\ loc' = "returned")
            => /\ FormatOpcode(instruction) = 15
               /\ halt
               /\ at_fetch.pc = 6
               /\ registers'[2] = Lit(8)
               /\ registers'[1] = Lit(1)
               /\ ram'[18] = Lit(8)]_vars

\* the demo has returned from its halt with 8 in r2 and in memory[18]
C20_Witness ==
    /\ DemoRunning
    /\ loc = "returned"
    /\ instruction = HLT
    /\ registers[1] = Lit(1)
    /\ registers[2] = Lit(8)
    /\ ram[18] = Lit(8)

====
